---------------------------- MODULE Spec2Model ----------------------------
(***************************************************************************)
(* Model of the research agent (src/src/lib/agent.ts and the earlier,      *)
(* algorithmic-only iteration src/unnamed/part_000).                       *)
(*                                                                         *)
(* One request is handled per behaviour.  A handler is cut into one action *)
(* per awaited external call: everything the code does synchronously       *)
(* before and after the await belongs to that action.                      *)
(*                                                                         *)
(* Abstractions                                                            *)
(*  - a search hit is [url, title]; the description is carried nowhere the *)
(*    modelled properties look at and is left out;                         *)
(*  - a page body is represented by the length of its extracted text;      *)
(*  - a completion text is a sequence over the alphabet                    *)
(*      "{" "}"  braces                                                     *)
(*      "S"      a well-formed member  "summary": <51 characters>          *)
(*      "s"      a well-formed member  "summary": <50 characters>          *)
(*      "m"      any other well-formed member                              *)
(*      "x"      prose, not part of any JSON value                         *)
(*  - a text to summarize is a sequence of fragments (the pieces the       *)
(*    sentence splitter produces), each with its length and the features   *)
(*    scoreSentence looks at.                                              *)
(***************************************************************************)
EXTENDS Integers, Sequences, FiniteSets, TLC

VARIABLES
    entry,          \* entrypoint key handling the request
    input,          \* the request's input, defaults applied
    env,            \* process.env: which API keys are configured
    pc,             \* position of the handler
    queries,        \* deep-research: planned search queries
    qi,             \* deep-research: index of the next query to search
    allResults,     \* deep-research: concatenated search results
    uniqueResults,  \* deep-research: deduplicated, capped results
    fi,             \* deep-research: index of the next result to fetch
    sourceContents, \* deep-research: sources kept for synthesis
    fetchReply,     \* summarize: what the fetch of input.url produced
    content,        \* summarize: the text to summarize
    algoResult,     \* summarize: result of summarizeText
    aiReply,        \* what the completion endpoint did for callAI
    aiResponse,     \* value returned by callAI
    parsed,         \* object decoded from aiResponse, or NoObject
    output,         \* the handler's output
    searchCalls,    \* number of webSearch calls, per query index
    fetchCalls,     \* number of page fetches, per url
    aiCalls,        \* number of callAI calls
    sumCalls        \* number of summarizeText calls

vars == <<entry, input, env, pc, queries, qi, allResults, uniqueResults, fi,
          sourceContents, fetchReply, content, algoResult, aiReply,
          aiResponse, parsed, output, searchCalls, fetchCalls, aiCalls,
          sumCalls>>

-----------------------------------------------------------------------------
(* Bounds of the model *)

MaxFocus == 4
MaxFrags == 6

Null == [null |-> TRUE]

Min(a, b) == IF a <= b THEN a ELSE b

Take(s, n) == SubSeq(s, 1, Min(Len(s), n))

RECURSIVE SumSeq(_)
SumSeq(s) == IF s = <<>> THEN 0 ELSE s[1] + SumSeq(Tail(s))

-----------------------------------------------------------------------------
(* The environment: topics, the web, the completion endpoint *)

Topics == {"X"}
FocusWords == {"pricing"}
Depths == {"quick", "thorough", "exhaustive"}

Urls == {"a", "b", "c", "d", "e", "f"}

Hit(u, t) == [url |-> u, title |-> t]

\* Result lists the search endpoint may answer with.
SearchResponses ==
    { <<>>,
      <<Hit("a", "old"), Hit("b", "old"), Hit("a", "newer")>>,
      <<Hit("c", "old"), Hit("a", "old"), Hit("d", "old"), Hit("e", "old"),
        Hit("f", "old")>> }

\* Length of the text extractText obtains from the page at each url.
PageTextLen ==
    [u \in Urls |->
        CASE u = "a" -> 201
          [] u = "b" -> 200
          [] u = "c" -> 12000
          [] u = "d" -> 5000
          [] u = "e" -> 0
          [] u = "f" -> 150]

\* Texts the completion endpoint may answer with.
AIResponses ==
    { <<>>,
      <<"x">>,
      <<"}", "{">>,
      <<"{", "x", "}">>,
      <<"{", "m", "}">>,
      <<"{", "s", "}">>,
      <<"x", "{", "S", "m", "}", "x">>,
      <<"{", "m", "}", "x", "{", "m", "}">> }

SearchReplies ==
    {[kind |-> "http_error", hits |-> <<>>],
     [kind |-> "transport_error", hits |-> <<>>]}
    \cup {[kind |-> "ok", hits |-> h] : h \in SearchResponses}

AIReplies ==
    {[kind |-> "http_error", text |-> <<>>],
     [kind |-> "transport_error", text |-> <<>>]}
    \cup {[kind |-> "ok", text |-> t] : t \in AIResponses}

NoReply == [kind |-> "none", text |-> <<>>]
NoKeyReply == [kind |-> "no_key", text |-> <<>>]

\* A page fetch: the status, and the length of the text extracted from it.
PageReplies(u) ==
    {[kind |-> "http_error", status |-> 404, len |-> 0],
     [kind |-> "transport_error", status |-> 0, len |-> 0],
     [kind |-> "timeout", status |-> 0, len |-> 0],
     [kind |-> "ok", status |-> 200, len |-> PageTextLen[u]]}

-----------------------------------------------------------------------------
(* callAI, webSearch, fetchAndExtract *)

\* callAI: "" without a key, on a non-success response and on any exception.
callAI(apiKey, reply) ==
    IF ~apiKey THEN <<>>
    ELSE IF reply.kind = "transport_error" THEN <<>>
    ELSE IF reply.kind = "http_error" THEN <<>>
    ELSE reply.text

\* webSearch: [] without a key, on a non-success response and on any exception.
webSearch(apiKey, reply) ==
    IF ~apiKey THEN <<>>
    ELSE IF reply.kind = "transport_error" THEN <<>>
    ELSE IF reply.kind = "http_error" THEN <<>>
    ELSE reply.hits

ExtractCap == 10000

\* fetchAndExtract: length of the returned text; "" on a non-success status
\* and on any exception, the abort raised by the 10 s timeout included.
fetchAndExtract(reply) ==
    IF reply.kind = "ok" THEN Min(reply.len, ExtractCap) ELSE 0

\* aiResponse.match(/\{[\s\S]*\}/): from the first "{" to the last "}";
\* <<>> stands for "no match" (a match holds at least the two braces).
JsonMatch(text) ==
    LET opens  == {i \in 1..Len(text) : text[i] = "{"}
        closes == {i \in 1..Len(text) : text[i] = "}"}
    IN  IF opens = {} \/ closes = {} THEN <<>>
        ELSE LET i == CHOOSE k \in opens : \A l \in opens : k <= l
                 j == CHOOSE k \in closes : \A l \in closes : k >= l
             IN  IF i < j THEN SubSeq(text, i, j) ELSE <<>>

Members == {"S", "s", "m"}

\* Whether JSON.parse accepts the span (otherwise it throws).
JsonValid(span) ==
    /\ Len(span) >= 2
    /\ span[1] = "{"
    /\ span[Len(span)] = "}"
    /\ \A i \in 2..(Len(span) - 1) : span[i] \in Members

NoObject == [ok |-> FALSE, json |-> <<>>]

\* Length of parsed.summary || "": JSON.parse keeps the last "summary" member.
SummaryLenOf(span) ==
    LET ss == {i \in 1..Len(span) : span[i] \in {"S", "s"}}
    IN  IF ss = {} THEN 0
        ELSE LET i == CHOOSE k \in ss : \A l \in ss : k >= l
             IN  IF span[i] = "S" THEN 51 ELSE 50

\* Decode without the JSON.parse failure: any matched span counts as decoded.
DecodeLenient(text) ==
    IF text = <<>> THEN NoObject
    ELSE IF JsonMatch(text) = <<>> THEN NoObject
    ELSE [ok |-> TRUE, json |-> JsonMatch(text)]

\* if (aiResponse) { match; if (jsonMatch) parsed = JSON.parse(jsonMatch[0]) }
\* inside try/catch: the decoded object, or NoObject when any step fails.
Decode(text) ==
    IF text = <<>> THEN NoObject
    ELSE LET span == JsonMatch(text)
         IN  IF span = <<>> THEN NoObject
             ELSE IF JsonValid(span) THEN [ok |-> TRUE, json |-> span]
             ELSE NoObject

-----------------------------------------------------------------------------
(* deep-research: planning, aggregation *)

QueryCap(depth) ==
    IF depth = "quick" THEN 2 ELSE IF depth = "thorough" THEN 4 ELSE 6

ResultCap(depth) ==
    IF depth = "quick" THEN 5 ELSE IF depth = "thorough" THEN 10 ELSE 20

MinSourceLen == 200
SourceCap == 5000

\* FetchLimit left out: every entry of the deduplicated list is fetched.
FetchLimitNone(depth) == ResultCap(depth)

FetchLimit(depth) ==
    IF depth = "quick" THEN 3 ELSE IF depth = "thorough" THEN 5 ELSE 8

\* PlanQueries without the slice.
PlanQueriesNoCap(topic, depth, focusAreas) ==
    << <<topic>>, <<topic, "explained">>, <<topic, "criticism problems">> >>
      \o [i \in 1..Len(focusAreas) |-> <<topic, focusAreas[i]>>]

\* A query is the sequence of its words: <<topic>> is the topic verbatim.
PlanQueries(topic, depth, focusAreas) ==
    Take(<< <<topic>>, <<topic, "explained">>, <<topic, "criticism problems">> >>
           \o [i \in 1..Len(focusAreas) |-> <<topic, focusAreas[i]>>],
         QueryCap(depth))

\* MapSet that keeps the first entry seen for a url.
MapSetKeepFirst(m, r) ==
    IF \E i \in 1..Len(m) : m[i].url = r.url THEN m ELSE Append(m, r)

\* Map.set: a known key keeps its position and takes the new value.
MapSet(m, r) ==
    IF \E i \in 1..Len(m) : m[i].url = r.url
    THEN [i \in 1..Len(m) |-> IF m[i].url = r.url THEN r ELSE m[i]]
    ELSE Append(m, r)

\* Array.from(new Map(results.map(r => [r.url, r])).values())
RECURSIVE MapValues(_, _)
MapValues(m, rs) ==
    IF rs = <<>> THEN m ELSE MapValues(MapSet(m, rs[1]), Tail(rs))

Dedup(results) == MapValues(<<>>, results)

UniqueResults(results, depth) == Take(Dedup(results), ResultCap(depth))

ToFetch(uniq, depth) == Take(uniq, FetchLimit(depth))

-----------------------------------------------------------------------------
(* Texts and the extractive summarizer *)

\* A fragment: its length, the lexicon words and keywords it contains (as
\* lower-case substrings), and whether it contains "?" or starts with '"'.
Tiny    == [len |-> 6,   has |-> {},        q |-> FALSE]
Plain20 == [len |-> 20,  has |-> {},        q |-> FALSE]
Ask36   == [len |-> 36,  has |-> {"alpha"}, q |-> TRUE]
Key60   == [len |-> 60,  has |-> {"key"},   q |-> FALSE]
Huge    == [len |-> 500, has |-> {},        q |-> FALSE]

FragKinds == {Tiny, Plain20, Ask36, Key60, Huge}

Texts == UNION {[1..n -> FragKinds] : n \in 0..MaxFrags}

MaxLengths == {100, 150}

KeywordLists == {<<>>, <<"alpha">>}

\* text.length: the fragments, one whitespace character between neighbours.
TextLen(text) ==
    IF text = <<>> THEN 0
    ELSE SumSeq([i \in 1..Len(text) |-> text[i].len]) + (Len(text) - 1)

MinSentenceLen == 15
MaxSentenceLen == 500

\* extractSentences: split, then keep 15 < length < 500.  pos is the place of
\* the sentence in the text; the array index is the place in the result.
extractSentences(text) ==
    SelectSeq([i \in 1..Len(text) |-> [pos |-> i, frag |-> text[i]]],
              LAMBDA s : s.frag.len > MinSentenceLen
                         /\ s.frag.len < MaxSentenceLen)

Indicators ==
    {"important", "key", "significant", "main", "primary", "conclusion",
     "result", "finding", "therefore", "thus", "however", "although",
     "despite", "notably", "specifically"}

\* scoreSentence, in half points (the code's score times two); index is the
\* zero-based array index.
scoreSentence(frag, index, total, keywords) ==
    LET positionScore == IF 10 * index < 3 * total THEN 4
                         ELSE IF 10 * index < 6 * total THEN 2 ELSE 1
        lengthScore   == IF frag.len > 50 /\ frag.len < 200 THEN 2 ELSE 0
        keywordScore  ==
            3 * Cardinality({k \in 1..Len(keywords) : keywords[k] \in frag.has})
        indicatorScore == Cardinality(Indicators \cap frag.has)
        penalty       == IF frag.q THEN 1 ELSE 0
    IN  positionScore + lengthScore + keywordScore + indicatorScore - penalty

\* ScoredBefore with equal scores ordered the other way round.
ScoredBeforeLastFirst(a, b) ==
    a.score > b.score \/ (a.score = b.score /\ a.index > b.index)

\* (a, b) => b.score - a.score || a.index - b.index
ScoredBefore(a, b) ==
    a.score > b.score \/ (a.score = b.score /\ a.index < b.index)

\* scored.sort(...): the comparator is a strict total order on the items.
SortScored(items) ==
    LET S == {items[i] : i \in 1..Len(items)}
    IN  [k \in 1..Len(items) |->
            CHOOSE e \in S : Cardinality({d \in S : ScoredBefore(d, e)}) = k - 1]

\* SortByIndex left out: the selection stays in score order.
KeepScoreOrder(items) == items

\* selected.sort((a, b) => a.index - b.index)
SortByIndex(items) ==
    LET S == {items[i] : i \in 1..Len(items)}
    IN  [k \in 1..Len(items) |->
            CHOOSE e \in S : Cardinality({d \in S : d.index < e.index}) = k - 1]

MaxSelected == 5
KeyPointCount == 3
KeyPointLen == 100

\* SelectFrom without the break at five selected sentences.
RECURSIVE SelectFromNoStop(_, _, _, _, _)
SelectFromNoStop(scored, k, selected, currentLength, maxLength) ==
    IF k > Len(scored) THEN selected
    ELSE LET item == scored[k]
             fits == currentLength + item.frag.len + 2 <= maxLength
         IN  SelectFromNoStop(scored, k + 1,
                 IF fits THEN Append(selected, item) ELSE selected,
                 IF fits THEN currentLength + item.frag.len + 2
                 ELSE currentLength,
                 maxLength)

\* SelectFrom without the length budget.
RECURSIVE SelectFromNoBudget(_, _, _, _, _)
SelectFromNoBudget(scored, k, selected, currentLength, maxLength) ==
    IF k > Len(scored) THEN selected
    ELSE LET sel == Append(selected, scored[k])
         IN  IF Len(sel) >= MaxSelected THEN sel
             ELSE SelectFromNoBudget(scored, k + 1, sel,
                      currentLength + scored[k].frag.len + 2, maxLength)

\* The selection loop, from the k-th scored item on.
RECURSIVE SelectFrom(_, _, _, _, _)
SelectFrom(scored, k, selected, currentLength, maxLength) ==
    IF k > Len(scored) THEN selected
    ELSE LET item == scored[k]
             fits == currentLength + item.frag.len + 2 <= maxLength
             sel  == IF fits THEN Append(selected, item) ELSE selected
             cur  == IF fits THEN currentLength + item.frag.len + 2
                     ELSE currentLength
         IN  IF Len(sel) >= MaxSelected THEN sel
             ELSE SelectFrom(scored, k + 1, sel, cur, maxLength)

\* selected.map(s => s.sentence).join(" ").length
JoinedLen(items) ==
    IF items = <<>> THEN 0
    ELSE SumSeq([i \in 1..Len(items) |-> items[i].frag.len]) + (Len(items) - 1)

\* sentences.map(...) followed by scored.sort(...)
ScoredSentences(text, keywords) ==
    LET sentences == extractSentences(text)
    IN  SortScored([i \in 1..Len(sentences) |->
            [pos   |-> sentences[i].pos,
             frag  |-> sentences[i].frag,
             index |-> i - 1,
             score |-> scoreSentence(sentences[i].frag, i - 1,
                                     Len(sentences), keywords)]])

\* summarizeText.  The summary is given by the text positions of its
\* sentences, in the order they are joined, and by its length.
summarizeText(text, maxLength, keywords) ==
    IF Len(extractSentences(text)) = 0
    THEN [summary   |-> [parts |-> <<>>, len |-> Min(TextLen(text), maxLength)],
          keyPoints |-> <<>>]
    ELSE
      LET scored   == ScoredSentences(text, keywords)
          selected == SortByIndex(SelectFrom(scored, 1, <<>>, 0, maxLength))
          top      == Take(scored, KeyPointCount)
      IN  [summary   |-> [parts |-> [i \in 1..Len(selected) |-> selected[i].pos],
                          len   |-> JoinedLen(selected)],
           keyPoints |-> [i \in 1..Len(top) |->
                [pos |-> top[i].pos,
                 len |-> IF top[i].frag.len > KeyPointLen
                         THEN KeyPointLen + 3 ELSE top[i].frag.len]]]

-----------------------------------------------------------------------------
(* Requests *)

NoUrl == ""

\* Texts a summarize request carries, and texts extracted from its url.
HandlerTexts ==
    { <<Tiny>>,
      <<Plain20>>,
      <<Key60, Plain20>>,
      <<Key60, Ask36, Key60>>,
      <<Huge>> }

\* A request carries a url, a text, both or neither; an absent text and the
\* empty text are both <<>> (the refinement does not tell them apart).
SummarizeInputs ==
    {[url |-> u, text |-> t, maxLength |-> n, keywords |-> <<>>] :
        u \in {"a"}, t \in {<<>>, <<Key60, Plain20>>}, n \in MaxLengths}
    \cup {[url |-> NoUrl, text |-> t, maxLength |-> n, keywords |-> k] :
        t \in HandlerTexts \cup {<<>>}, n \in MaxLengths, k \in KeywordLists}

\* summarizeSchema without the refinement.
summarizeSchemaNoRefine(data) == TRUE

\* .refine(data => data.url || data.text): whether the input is accepted.
summarizeSchema(data) == data.url # NoUrl \/ data.text # <<>>

ResearchInputs ==
    {[topic |-> t, hasQuestions |-> q, skepticalMode |-> m] :
        t \in Topics, q \in BOOLEAN, m \in BOOLEAN}

DeepInputs ==
    {[topic |-> t, depth |-> d, focusAreas |-> f] :
        t \in Topics, d \in Depths,
        f \in UNION {[1..n -> FocusWords] : n \in 0..MaxFocus}}

Entries == {"summarize", "summarize_v1", "research", "deep-research"}

InputsOf(e) ==
    CASE e = "summarize"     -> SummarizeInputs
      [] e = "summarize_v1"  -> SummarizeInputs
      [] e = "research"      -> ResearchInputs
      [] e = "deep-research" -> DeepInputs

\* Only deep-research reads BRAVE_API_KEY; summarize_v1 reads no key.
EnvsOf(e) ==
    CASE e = "deep-research" -> [aiKey : BOOLEAN, braveKey : BOOLEAN]
      [] e = "summarize_v1"  -> {[aiKey |-> TRUE, braveKey |-> TRUE]}
      [] OTHER               -> [aiKey : BOOLEAN, braveKey : {TRUE}]

NoFetch == [kind |-> "none", status |-> 0, len |-> 0]
NoResult == [summary |-> [parts |-> <<>>, len |-> 0], keyPoints |-> <<>>]

Locals0 ==
    /\ pc = "start"
    /\ queries = <<>>
    /\ qi = 1
    /\ allResults = <<>>
    /\ uniqueResults = <<>>
    /\ fi = 1
    /\ sourceContents = <<>>
    /\ fetchReply = NoFetch
    /\ content = <<>>
    /\ algoResult = NoResult
    /\ aiReply = NoReply
    /\ aiResponse = <<>>
    /\ parsed = NoObject
    /\ output = Null
    /\ searchCalls = [i \in 1..QueryCap("exhaustive") |-> 0]
    /\ fetchCalls = [u \in Urls |-> 0]
    /\ aiCalls = 0
    /\ sumCalls = 0

Init ==
    /\ entry \in Entries
    /\ input \in InputsOf(entry)
    /\ env \in EnvsOf(entry)
    /\ Locals0

-----------------------------------------------------------------------------
(* The completion call, as every handler makes it *)

AIRepliesFor(e) == IF e.aiKey THEN AIReplies ELSE {NoKeyReply}

\* The call is made, and its result decoded, with this reply.
AICalled(reply) ==
    /\ aiReply' = reply
    /\ aiResponse' = callAI(env.aiKey, reply)
    /\ parsed' = Decode(callAI(env.aiKey, reply))
    /\ aiCalls' = aiCalls + 1

\* The completion endpoint never answers: fetch has no timeout, callAI never
\* returns and the handler stays at its await.
AIHangs ==
    /\ env.aiKey
    /\ aiReply' = [kind |-> "no_response", text |-> <<>>]
    /\ aiCalls' = aiCalls + 1
    /\ pc' = "hung_ai"
    /\ UNCHANGED <<aiResponse, parsed, output>>

-----------------------------------------------------------------------------
(* deep-research *)

DR_Plan ==
    /\ entry = "deep-research"
    /\ pc = "start"
    /\ queries' = PlanQueries(input.topic, input.depth, input.focusAreas)
    /\ pc' = "search"
    /\ UNCHANGED <<entry, input, env, qi, allResults, uniqueResults, fi,
                   sourceContents, fetchReply, content, algoResult, aiReply,
                   aiResponse, parsed, output, searchCalls, fetchCalls,
                   aiCalls, sumCalls>>

SearchRepliesFor(e) ==
    IF e.braveKey THEN SearchReplies ELSE {[kind |-> "no_key", hits |-> <<>>]}

\* DR_Search that repeats a query once when it brought nothing.
DR_SearchRetry ==
    /\ entry = "deep-research"
    /\ pc = "search"
    /\ \E reply \in SearchRepliesFor(env) :
         LET got   == webSearch(env.braveKey, reply)
             retry == got = <<>> /\ searchCalls[qi] = 0
             all   == allResults \o got
             last  == qi = Len(queries) /\ ~retry
             uniq  == UniqueResults(all, input.depth)
         IN  /\ allResults' = all
             /\ searchCalls' = [searchCalls EXCEPT ![qi] = @ + 1]
             /\ qi' = IF retry THEN qi ELSE qi + 1
             /\ uniqueResults' = IF last THEN uniq ELSE uniqueResults
             /\ pc' = IF ~last THEN "search"
                      ELSE IF ToFetch(uniq, input.depth) = <<>> THEN "synth"
                      ELSE "fetch"
    /\ UNCHANGED <<entry, input, env, queries, fi, sourceContents, fetchReply,
                   content, algoResult, aiReply, aiResponse, parsed, output,
                   fetchCalls, aiCalls, sumCalls>>

\* One turn of the search loop; after the last query, the deduplication.
DR_Search ==
    /\ entry = "deep-research"
    /\ pc = "search"
    /\ \E reply \in SearchRepliesFor(env) :
         LET all  == allResults \o webSearch(env.braveKey, reply)
             last == qi = Len(queries)
             uniq == UniqueResults(all, input.depth)
         IN  /\ allResults' = all
             /\ searchCalls' = [searchCalls EXCEPT ![qi] = @ + 1]
             /\ qi' = qi + 1
             /\ uniqueResults' = IF last THEN uniq ELSE uniqueResults
             /\ pc' = IF ~last THEN "search"
                      ELSE IF ToFetch(uniq, input.depth) = <<>> THEN "synth"
                      ELSE "fetch"
    /\ UNCHANGED <<entry, input, env, queries, fi, sourceContents, fetchReply,
                   content, algoResult, aiReply, aiResponse, parsed, output,
                   fetchCalls, aiCalls, sumCalls>>

\* The search endpoint never answers: webSearch's fetch has no timeout.
DR_SearchHangs ==
    /\ entry = "deep-research"
    /\ pc = "search"
    /\ env.braveKey
    /\ searchCalls' = [searchCalls EXCEPT ![qi] = @ + 1]
    /\ pc' = "hung_search"
    /\ UNCHANGED <<entry, input, env, queries, qi, allResults, uniqueResults,
                   fi, sourceContents, fetchReply, content, algoResult,
                   aiReply, aiResponse, parsed, output, fetchCalls, aiCalls,
                   sumCalls>>

\* One turn of the fetch loop.  A page that never answers is aborted by
\* AbortSignal.timeout(10000) and yields "" like any other failure.
DR_Fetch ==
    /\ entry = "deep-research"
    /\ pc = "fetch"
    /\ LET result == uniqueResults[fi]
           last   == fi = Len(ToFetch(uniqueResults, input.depth))
       IN  /\ \E reply \in PageReplies(result.url) :
                LET len == fetchAndExtract(reply)
                IN  sourceContents' =
                      IF len > MinSourceLen
                      THEN Append(sourceContents,
                                  [url |-> result.url, title |-> result.title,
                                   contentLen |-> Min(len, SourceCap)])
                      ELSE sourceContents
           /\ fetchCalls' = [fetchCalls EXCEPT ![result.url] = @ + 1]
           /\ fi' = fi + 1
           /\ pc' = IF last THEN "synth" ELSE "fetch"
    /\ UNCHANGED <<entry, input, env, queries, qi, allResults, uniqueResults,
                   fetchReply, content, algoResult, aiReply, aiResponse,
                   parsed, output, searchCalls, aiCalls, sumCalls>>

DeepOutput(obj) ==
    [success     |-> TRUE,
     topic       |-> input.topic,
     depth       |-> input.depth,
     methodology |-> [searchQueries   |-> queries,
                      sourcesFound    |-> Len(uniqueResults),
                      sourcesAnalyzed |-> Len(sourceContents)],
     sources     |-> uniqueResults,
     synthesis   |-> IF obj.ok THEN obj
                     ELSE [ok         |-> FALSE,
                           error      |-> "AI synthesis unavailable",
                           rawSources |-> [i \in 1..Len(sourceContents) |->
                               [title |-> sourceContents[i].title,
                                url   |-> sourceContents[i].url]]],
     tedNote     |-> IF obj.ok THEN "synthesized" ELSE "synthesis failed"]

\* DR_Synth that gathers the sources once more when the synthesis failed.
DR_SynthRetry ==
    /\ entry = "deep-research"
    /\ pc = "synth"
    /\ \E reply \in AIRepliesFor(env) :
         LET obj   == Decode(callAI(env.aiKey, reply))
             retry == ~obj.ok /\ aiCalls = 0
         IN  /\ AICalled(reply)
             /\ output' = IF retry THEN output ELSE DeepOutput(obj)
             /\ pc' = IF retry THEN "search" ELSE "done"
             /\ qi' = IF retry THEN 1 ELSE qi
             /\ fi' = IF retry THEN 1 ELSE fi
    /\ UNCHANGED <<entry, input, env, queries, allResults, uniqueResults,
                   sourceContents, fetchReply, content, algoResult,
                   searchCalls, fetchCalls, sumCalls>>

DR_Synth ==
    /\ entry = "deep-research"
    /\ pc = "synth"
    /\ \E reply \in AIRepliesFor(env) :
         /\ AICalled(reply)
         /\ output' = DeepOutput(Decode(callAI(env.aiKey, reply)))
    /\ pc' = "done"
    /\ UNCHANGED <<entry, input, env, queries, qi, allResults, uniqueResults,
                   fi, sourceContents, fetchReply, content, algoResult,
                   searchCalls, fetchCalls, sumCalls>>

DR_SynthHangs ==
    /\ entry = "deep-research"
    /\ pc = "synth"
    /\ AIHangs
    /\ UNCHANGED <<entry, input, env, queries, qi, allResults, uniqueResults,
                   fi, sourceContents, fetchReply, content, algoResult,
                   searchCalls, fetchCalls, sumCalls>>

-----------------------------------------------------------------------------
(* research *)

BaseFramework ==
    [topic             |-> input.topic,
     suggestedSearches |-> << <<input.topic, "overview">>,
                              <<input.topic, "criticism">>,
                              <<input.topic, "vs alternatives">>,
                              <<input.topic, "problems">> >>,
     questionsToAnswer |-> IF input.hasQuestions THEN "questions"
                           ELSE "default questions"]

ResearchOutput(obj) ==
    IF obj.ok
    THEN [framework |-> BaseFramework,
          aiPowered |-> TRUE,
          analysis  |-> obj,
          success   |-> TRUE]
    ELSE [framework         |-> BaseFramework,
          aiPowered         |-> FALSE,
          skepticalAnalysis |-> input.skepticalMode,
          tedTake           |-> "older than the internet",
          disclaimer        |-> "Framework only - AI unavailable for deep analysis.",
          success           |-> TRUE]

R_Research ==
    /\ entry = "research"
    /\ pc = "start"
    /\ \E reply \in AIRepliesFor(env) :
         /\ AICalled(reply)
         /\ output' = ResearchOutput(Decode(callAI(env.aiKey, reply)))
    /\ pc' = "done"
    /\ UNCHANGED <<entry, input, env, queries, qi, allResults, uniqueResults,
                   fi, sourceContents, fetchReply, content, algoResult,
                   searchCalls, fetchCalls, sumCalls>>

R_ResearchHangs ==
    /\ entry = "research"
    /\ pc = "start"
    /\ AIHangs
    /\ UNCHANGED <<entry, input, env, queries, qi, allResults, uniqueResults,
                   fi, sourceContents, fetchReply, content, algoResult,
                   searchCalls, fetchCalls, sumCalls>>

-----------------------------------------------------------------------------
(* summarize *)

MinContentLen == 100
MinAiSummaryLen == 50

\* What the fetch of a user-supplied url may produce: a status, and the text
\* extractText obtains from the body.
UrlReplies ==
    {[kind |-> "http_error", status |-> st, text |-> <<>>] : st \in {404, 500}}
    \cup {[kind |-> "transport_error", status |-> 0, text |-> <<>>]}
    \cup {[kind |-> "ok", status |-> 200, text |-> t] : t \in HandlerTexts}

FetchError(reply) ==
    IF reply.kind = "transport_error"
        THEN [success |-> FALSE, url |-> input.url,
              error |-> <<"Fetch failed">>]
    ELSE IF reply.kind = "http_error"
        THEN [success |-> FALSE, url |-> input.url,
              error |-> <<"Failed to fetch: HTTP", reply.status>>]
    ELSE [success |-> FALSE, url |-> input.url,
          error |-> <<"Couldn't extract meaningful text from URL.">>]

\* FetchRejected without the check of the extracted length.
FetchRejectedNoLen(reply) == reply.kind # "ok"

\* Whether the code between "if (url)" and the end of its try block returns.
FetchRejected(reply) ==
    \/ reply.kind # "ok"
    \/ TextLen(reply.text) < MinContentLen

\* The output of the algorithmic-only handler.
AlgoOutput(result) ==
    [success       |-> TRUE,
     summary       |-> result.summary,
     keyPoints     |-> result.keyPoints,
     sourceUrl     |-> input.url,
     summaryLength |-> result.summary.len]

\* SummarizeOutput taking an AI summary of exactly 50 characters as well.
SummarizeOutputFrom50(obj, result) ==
    LET aiSummaryLen == IF obj.ok THEN SummaryLenOf(obj.json) ELSE 0
        isAiPowered  == aiSummaryLen >= MinAiSummaryLen
    IN  [success       |-> TRUE,
         summary       |-> IF isAiPowered
                           THEN [from |-> "ai", len |-> aiSummaryLen]
                           ELSE [from |-> "algo", len |-> result.summary.len,
                                 parts |-> result.summary.parts],
         keyPoints     |-> IF isAiPowered THEN [from |-> "ai"]
                           ELSE [from |-> "algo", points |-> result.keyPoints],
         sourceUrl     |-> input.url,
         summaryLength |-> IF isAiPowered THEN aiSummaryLen
                           ELSE result.summary.len,
         aiPowered     |-> isAiPowered]

\* The output of the AI-augmented handler.
SummarizeOutput(obj, result) ==
    LET aiSummaryLen == IF obj.ok THEN SummaryLenOf(obj.json) ELSE 0
        isAiPowered  == aiSummaryLen > MinAiSummaryLen
    IN  [success       |-> TRUE,
         summary       |-> IF isAiPowered
                           THEN [from |-> "ai", len |-> aiSummaryLen]
                           ELSE [from |-> "algo", len |-> result.summary.len,
                                 parts |-> result.summary.parts],
         keyPoints     |-> IF isAiPowered THEN [from |-> "ai"]
                           ELSE [from |-> "algo", points |-> result.keyPoints],
         sourceUrl     |-> input.url,
         summaryLength |-> IF isAiPowered THEN aiSummaryLen
                           ELSE result.summary.len,
         aiPowered     |-> isAiPowered]

\* The input does not pass summarizeSchema: the handler is not called.
S_Reject ==
    /\ entry \in {"summarize", "summarize_v1"}
    /\ pc = "start"
    /\ ~summarizeSchema(input)
    /\ pc' = "rejected"
    /\ UNCHANGED <<entry, input, env, queries, qi, allResults, uniqueResults,
                   fi, sourceContents, fetchReply, content, algoResult,
                   aiReply, aiResponse, parsed, output, searchCalls,
                   fetchCalls, aiCalls, sumCalls>>

\* The fetch of input.url, up to the next await or the return.
S_Fetch ==
    /\ entry \in {"summarize", "summarize_v1"}
    /\ pc = "start"
    /\ summarizeSchema(input)
    /\ input.url # NoUrl
    /\ \E reply \in UrlReplies :
         /\ fetchReply' = [kind |-> reply.kind, status |-> reply.status,
                           len |-> TextLen(reply.text)]
         /\ IF FetchRejected(reply)
            THEN /\ output' = FetchError(reply)
                 /\ pc' = "done"
                 /\ content' = IF reply.kind = "ok" THEN reply.text ELSE input.text
                 /\ UNCHANGED <<algoResult, sumCalls>>
            ELSE IF entry = "summarize_v1"
            THEN /\ content' = reply.text
                 /\ algoResult' = summarizeText(reply.text, input.maxLength,
                                                input.keywords)
                 /\ sumCalls' = sumCalls + 1
                 /\ output' = AlgoOutput(summarizeText(reply.text,
                                  input.maxLength, input.keywords))
                 /\ pc' = "done"
            ELSE /\ content' = reply.text
                 /\ pc' = "ai"
                 /\ UNCHANGED <<algoResult, sumCalls, output>>
    /\ UNCHANGED <<entry, input, env, queries, qi, allResults, uniqueResults,
                   fi, sourceContents, aiReply, aiResponse, parsed,
                   searchCalls, fetchCalls, aiCalls>>

\* The server at input.url never answers: this fetch has no timeout.
S_FetchHangs ==
    /\ entry \in {"summarize", "summarize_v1"}
    /\ pc = "start"
    /\ summarizeSchema(input)
    /\ input.url # NoUrl
    /\ fetchReply' = [kind |-> "no_response", status |-> 0, len |-> 0]
    /\ pc' = "hung_fetch"
    /\ UNCHANGED <<entry, input, env, queries, qi, allResults, uniqueResults,
                   fi, sourceContents, content, algoResult, aiReply,
                   aiResponse, parsed, output, searchCalls, fetchCalls,
                   aiCalls, sumCalls>>

\* The handler is about to call callAI: with the text of the request, or
\* with the text of the page it fetched.
AtSummarizeAI ==
    \/ pc = "start" /\ summarizeSchema(input) /\ input.url = NoUrl
    \/ pc = "ai"

ContentNow == IF pc = "start" THEN input.text ELSE content

S_Summarize ==
    /\ entry = "summarize"
    /\ AtSummarizeAI
    /\ \E reply \in AIRepliesFor(env) :
         /\ AICalled(reply)
         /\ output' = SummarizeOutput(Decode(callAI(env.aiKey, reply)),
                          summarizeText(ContentNow, input.maxLength,
                                        input.keywords))
    /\ content' = ContentNow
    /\ algoResult' = summarizeText(ContentNow, input.maxLength, input.keywords)
    /\ sumCalls' = sumCalls + 1
    /\ pc' = "done"
    /\ UNCHANGED <<entry, input, env, queries, qi, allResults, uniqueResults,
                   fi, sourceContents, fetchReply, searchCalls, fetchCalls>>

S_SummarizeHangs ==
    /\ entry = "summarize"
    /\ AtSummarizeAI
    /\ AIHangs
    /\ content' = ContentNow
    /\ UNCHANGED <<entry, input, env, queries, qi, allResults, uniqueResults,
                   fi, sourceContents, fetchReply, algoResult, searchCalls,
                   fetchCalls, sumCalls>>

\* part_000: a request without url is answered without any await.
S1_SummarizeText ==
    /\ entry = "summarize_v1"
    /\ pc = "start"
    /\ summarizeSchema(input)
    /\ input.url = NoUrl
    /\ content' = input.text
    /\ algoResult' = summarizeText(input.text, input.maxLength, input.keywords)
    /\ sumCalls' = sumCalls + 1
    /\ output' = AlgoOutput(summarizeText(input.text, input.maxLength,
                                          input.keywords))
    /\ pc' = "done"
    /\ UNCHANGED <<entry, input, env, queries, qi, allResults, uniqueResults,
                   fi, sourceContents, fetchReply, aiReply, aiResponse,
                   parsed, searchCalls, fetchCalls, aiCalls>>

-----------------------------------------------------------------------------
(* The service: one request, handled by its entrypoint *)

Next ==
    \/ DR_Plan
    \/ DR_Search
    \/ DR_SearchHangs
    \/ DR_Fetch
    \/ DR_Synth
    \/ DR_SynthHangs
    \/ R_Research
    \/ R_ResearchHangs
    \/ S_Reject
    \/ S_Fetch
    \/ S_FetchHangs
    \/ S_Summarize
    \/ S_SummarizeHangs
    \/ S1_SummarizeText

Spec == Init /\ [][Next]_vars

-----------------------------------------------------------------------------
(* summarizeText on its own: every text, budget and keyword list *)

InitSum ==
    /\ entry = "summarizeText"
    /\ input \in {[url |-> NoUrl, text |-> t, maxLength |-> n, keywords |-> k] :
                    t \in Texts, n \in MaxLengths, k \in KeywordLists}
    /\ env = [aiKey |-> FALSE, braveKey |-> FALSE]
    /\ Locals0

CallSummarizeText ==
    /\ entry = "summarizeText"
    /\ pc = "start"
    /\ content' = input.text
    /\ algoResult' = summarizeText(input.text, input.maxLength, input.keywords)
    /\ sumCalls' = sumCalls + 1
    /\ pc' = "done"
    /\ UNCHANGED <<entry, input, env, queries, qi, allResults, uniqueResults,
                   fi, sourceContents, fetchReply, aiReply, aiResponse,
                   parsed, output, searchCalls, fetchCalls, aiCalls>>

NextSum == CallSummarizeText

SpecSum == InitSum /\ [][NextSum]_vars

-----------------------------------------------------------------------------
(* Properties *)

Hung == pc \in {"hung_search", "hung_fetch", "hung_ai"}

\* No part of the text is a JSON object.
NoJsonObjectIn(text) ==
    \A i \in 1..Len(text) : \A j \in i..Len(text) :
        ~JsonValid(SubSeq(text, i, j))

\* The completion capability is unavailable: missing key, non-success
\* response, transport error, or a response that holds no decodable object.
CompletionUnavailable ==
    \/ aiReply.kind \in {"no_key", "http_error", "transport_error"}
    \/ aiReply.kind = "ok" /\ NoJsonObjectIn(aiReply.text)

RawSourcesOf(sources) ==
    [i \in 1..Len(sources) |->
        [title |-> sources[i].title, url |-> sources[i].url]]

\* C1 - Fallback law: when the completion capability is unavailable, research
\* and deep-research still answer success: true with their fallback payload
\* (research: the template framework with aiPowered false; deep-research: the
\* "AI synthesis unavailable" marker with the raw source list), and no
\* analysis / synthesis field holds an AI result.
C1_FallbackLaw ==
    (pc = "done" /\ entry \in {"research", "deep-research"}
       /\ CompletionUnavailable)
    => /\ output.success = TRUE
       /\ entry = "research" =>
            /\ output.aiPowered = FALSE
            /\ "analysis" \notin DOMAIN output
            /\ output.framework = BaseFramework
            /\ output.disclaimer
                 = "Framework only - AI unavailable for deep analysis."
       /\ entry = "deep-research" =>
            /\ "json" \notin DOMAIN output.synthesis
            /\ output.synthesis.error = "AI synthesis unavailable"
            /\ output.synthesis.rawSources = RawSourcesOf(sourceContents)
            /\ output.tedNote = "synthesis failed"

C1_Witness ==
    /\ pc = "done"
    /\ entry = "deep-research"
    /\ aiReply.kind = "ok"
    /\ aiReply.text # <<>>
    /\ CompletionUnavailable
    /\ output.success
    /\ Len(output.synthesis.rawSources) > 0

SummarizeDone == pc = "done" /\ entry \in {"summarize", "summarize_v1"}

\* C2 (as stated) - summarize answers success: false only after a failed
\* fetch of the user-supplied url.
C2_OnlyFailedFetch ==
    (SummarizeDone /\ output.success = FALSE)
    => fetchReply.kind \in {"http_error", "transport_error"}

\* C2 (amended) - summarize answers success: false exactly when a url was
\* supplied and either its fetch failed (HTTP 404 gives the error
\* "Failed to fetch: HTTP 404" with the url) or the fetch succeeded but the
\* extracted text is shorter than 100 characters; then neither summarizeText
\* nor callAI is called.  Every failure of the completion capability leaves
\* success: true with the extractive summary.
C2_FetchOrShortText ==
    SummarizeDone =>
      /\ output.success = FALSE <=>
            /\ input.url # NoUrl
            /\ \/ fetchReply.kind \in {"http_error", "transport_error"}
               \/ fetchReply.kind = "ok" /\ fetchReply.len < 100
      /\ output.success = FALSE =>
            /\ aiCalls = 0
            /\ sumCalls = 0
            /\ output.url = input.url
            /\ fetchReply.kind = "http_error" =>
                 output.error = <<"Failed to fetch: HTTP", fetchReply.status>>
      /\ (output.success /\ entry = "summarize" /\ CompletionUnavailable) =>
            /\ sumCalls = 1
            /\ output.aiPowered = FALSE
            /\ output.summary.from = "algo"
            /\ output.summary.parts = algoResult.summary.parts
            /\ output.summary.len = algoResult.summary.len
            /\ algoResult = summarizeText(content, input.maxLength,
                                          input.keywords)

C2_Witness ==
    /\ SummarizeDone
    /\ output.success = FALSE
    /\ fetchReply.kind = "ok"
    /\ fetchReply.len > 0
    /\ aiCalls = 0

\* The phase of a deep-research request.
Phase ==
    CASE pc = "start" -> "RECEIVED"
      [] pc = "search" /\ qi = 1 -> "PLANNED"
      [] pc = "search" /\ qi > 1 -> "SEARCHING"
      [] pc \in {"hung_search", "fetch"} -> "SEARCHING"
      [] pc \in {"synth", "hung_ai"} ->
            IF sourceContents = <<>> THEN "NO_SOURCES" ELSE "SOURCES_GATHERED"
      [] pc = "done" ->
            IF output.synthesis.ok THEN "SYNTHESIZED" ELSE "SYNTHESIS_FALLBACK"

PhaseOrder(p, q) ==
    \/ p = q
    \/ p = "RECEIVED" /\ q = "PLANNED"
    \/ p = "PLANNED" /\ q = "SEARCHING"
    \/ p = "SEARCHING" /\ q \in {"SOURCES_GATHERED", "NO_SOURCES"}
    \/ p \in {"SOURCES_GATHERED", "NO_SOURCES"}
         /\ q \in {"SYNTHESIZED", "SYNTHESIS_FALLBACK"}

\* What the handler has got through: the plan, loop turns, the completion
\* call, and the call it is left waiting for.
Progress ==
    (IF pc = "start" THEN 0 ELSE 1) + qi + fi + aiCalls
      + (IF pc = "hung_search" THEN 1 ELSE 0)

C4_EveryCallSettles == ~Hung

\* C5 - within one deep-research request webSearch is called exactly once per
\* planned query, each page is fetched at most once and callAI is called
\* exactly once, whether or not calls fail.
C5_NoRetry ==
    entry = "deep-research" =>
      /\ \A i \in DOMAIN searchCalls : searchCalls[i] <= 1
      /\ \A u \in Urls : fetchCalls[u] <= 1
      /\ aiCalls <= 1
      /\ pc = "done" =>
            /\ \A i \in DOMAIN searchCalls :
                 searchCalls[i] = IF i <= Len(queries) THEN 1 ELSE 0
            /\ aiCalls = 1

C5_Witness ==
    /\ entry = "deep-research"
    /\ pc = "done"
    /\ aiReply.kind = "http_error"
    /\ env.braveKey
    /\ allResults = <<>>
    /\ Len(queries) = 6

UrlsOf(results) == {results[i].url : i \in 1..Len(results)}

LastSeen(results, u) ==
    results[CHOOSE i \in 1..Len(results) :
              /\ results[i].url = u
              /\ \A j \in (i + 1)..Len(results) : results[j].url # u]

Searched == entry = "deep-research" /\ pc \in {"fetch", "synth", "hung_ai", "done"}

\* C6 - the deduplicated list holds exactly one entry per distinct url of the
\* aggregated results, and that entry is the last one seen for the url; the
\* list the request goes on with is its first ResultCap entries.
C6_Dedup ==
    Searched =>
      LET d == Dedup(allResults)
      IN  /\ \A u \in UrlsOf(allResults) :
                Cardinality({i \in 1..Len(d) : d[i].url = u}) = 1
          /\ \A i \in 1..Len(d) : d[i] = LastSeen(allResults, d[i].url)
          /\ Len(uniqueResults)
               = Min(Cardinality(UrlsOf(allResults)),
                     CASE input.depth = "quick" -> 5
                       [] input.depth = "thorough" -> 10
                       [] input.depth = "exhaustive" -> 20)
          /\ \A i \in 1..Len(uniqueResults) :
                /\ uniqueResults[i] = d[i]
                /\ uniqueResults[i] = LastSeen(allResults, uniqueResults[i].url)
                /\ \A j \in 1..Len(uniqueResults) :
                     uniqueResults[j].url = uniqueResults[i].url => j = i

C6_Witness ==
    /\ Searched
    /\ \E i \in 1..Len(allResults) : \E j \in (i + 1)..Len(allResults) :
         /\ allResults[i].url = allResults[j].url
         /\ allResults[i].title = "old"
         /\ allResults[j].title = "newer"
         /\ \E k \in 1..Len(uniqueResults) :
              uniqueResults[k] = Hit(allResults[i].url, "newer")

TotalSearchCalls == SumSeq(searchCalls)

\* C7 - the planned queries start with the topic verbatim and are never more
\* than 2 (quick), 4 (thorough) or 6 (exhaustive), for any number of focus
\* areas; so a request makes at most that many search calls.
C7_QueryCap ==
    (entry = "deep-research" /\ pc # "start") =>
      LET cap == CASE input.depth = "quick" -> 2
                   [] input.depth = "thorough" -> 4
                   [] input.depth = "exhaustive" -> 6
      IN  /\ queries[1] = <<input.topic>>
          /\ Len(queries) <= cap
          /\ TotalSearchCalls <= cap

C7_Witness ==
    /\ entry = "deep-research"
    /\ pc = "done"
    /\ input.depth = "exhaustive"
    /\ 3 + Len(input.focusAreas) > 6
    /\ TotalSearchCalls = 6

SumDone == entry = "summarizeText" /\ pc = "done"

\* sum of (length + 2) over the selected sentences: the loop's currentLength
SpentBudget == algoResult.summary.len + Len(algoResult.summary.parts) + 1

\* C8 - summarizeText never selects more than 5 sentences.
C8_AtMostFive ==
    SumDone => Len(algoResult.summary.parts) <= 5

\* five selected although a further sentence would still fit the budget
C8_Witness ==
    /\ SumDone
    /\ Len(algoResult.summary.parts) = 5
    /\ \E i \in 1..Len(input.text) :
         /\ input.text[i].len > 15
         /\ input.text[i].len < 500
         /\ \A k \in 1..5 : algoResult.summary.parts[k] # i
         /\ SpentBudget + input.text[i].len + 2 <= input.maxLength

\* C9 - the sentences of the summary stand in the summary in the order in
\* which they stand in the text, whatever their scores.
C9_OrderPreserved ==
    SumDone =>
      \A i \in 1..Len(algoResult.summary.parts) :
        \A j \in 1..Len(algoResult.summary.parts) :
          i < j => algoResult.summary.parts[i] < algoResult.summary.parts[j]

\* a later sentence outscores an earlier one and both are in the summary
C9_Witness ==
    /\ SumDone
    /\ LET scored == ScoredSentences(input.text, input.keywords)
           parts  == algoResult.summary.parts
       IN  \E a \in 1..Len(scored) : \E b \in 1..Len(scored) :
             /\ a < b
             /\ scored[a].pos > scored[b].pos
             /\ scored[a].score > scored[b].score
             /\ \E i \in 1..Len(parts) : parts[i] = scored[a].pos
             /\ \E i \in 1..Len(parts) : parts[i] = scored[b].pos

\* C10 - the summary is never longer than maxLength: neither when sentences
\* were selected, nor when no sentence passes the length filter and the
\* summary is the head of the text, with no key points.
C10_WithinMaxLength ==
    SumDone =>
      /\ algoResult.summary.len <= input.maxLength
      /\ (\A i \in 1..Len(input.text) :
            input.text[i].len <= 15 \/ input.text[i].len >= 500)
         => /\ algoResult.keyPoints = <<>>
            /\ algoResult.summary.parts = <<>>
            /\ TextLen(input.text) <= input.maxLength
                 => algoResult.summary.len = TextLen(input.text)

\* a sentence was left out for want of budget and the rest fills it exactly
C10_Witness ==
    /\ SumDone
    /\ SpentBudget = input.maxLength
    /\ Len(algoResult.summary.parts) < 5
    /\ \E i \in 1..Len(input.text) :
         /\ input.text[i].len > 15
         /\ input.text[i].len < 500
         /\ \A k \in 1..Len(algoResult.summary.parts) :
              algoResult.summary.parts[k] # i

Summarizing == entry \in {"summarize", "summarize_v1"}

NeitherGiven == input.url = NoUrl /\ input.text = <<>>
BothGiven == input.url # NoUrl /\ input.text # <<>>

\* nothing of the handler has run
NotProcessed ==
    /\ pc \in {"start", "rejected"}
    /\ fetchReply = NoFetch
    /\ aiCalls = 0
    /\ sumCalls = 0
    /\ output = Null

\* C11 (as stated) - summarize requires exactly one of url / text: an input
\* with neither, or with both, is rejected and not processed further.
C11_ExactlyOne ==
    (Summarizing /\ (NeitherGiven \/ BothGiven)) => NotProcessed

\* C11 (amended) - summarize requires at least one of url / text to be
\* meaningfully present: an input with neither (the empty text counts as
\* absent) is rejected and not processed further, and no other input is
\* rejected; an input with both is processed like one with the url alone,
\* the text extracted from the page replacing the supplied text.
C11_AtLeastOne ==
    Summarizing =>
      /\ NeitherGiven => NotProcessed
      /\ pc = "rejected" => NeitherGiven
      /\ (BothGiven /\ pc # "start") =>
            /\ fetchReply # NoFetch
            /\ (pc = "done" /\ output.success) =>
                  /\ fetchReply.kind = "ok"
                  /\ TextLen(content) = fetchReply.len
                  /\ content # input.text
                  /\ output.sourceUrl = input.url

C11_Witness ==
    /\ entry = "summarize"
    /\ NeitherGiven
    /\ pc = "rejected"

\* every search call of the finished request returned the empty sequence
SearchUnavailable ==
    /\ entry = "deep-research"
    /\ pc = "done"
    /\ allResults = <<>>

\* C12 - a deep-research request at depth quick with the search capability
\* unavailable (every search call returns the empty sequence) is answered
\* with sources = [], methodology.sourcesFound = 0, the fallback payload in
\* the synthesis field, and success = true.
C12_NoSearchFallback ==
    (SearchUnavailable /\ input.depth = "quick") =>
      /\ output.success = TRUE
      /\ output.sources = <<>>
      /\ output.methodology.sourcesFound = 0
      /\ output.methodology.sourcesAnalyzed = 0
      /\ output.synthesis.ok = FALSE
      /\ output.synthesis.error = "AI synthesis unavailable"
      /\ output.synthesis.rawSources = <<>>

\* position of the url in the deduplicated list; 0 when it is not there
PlaceOf(u) ==
    IF \E i \in 1..Len(uniqueResults) : uniqueResults[i].url = u
    THEN CHOOSE i \in 1..Len(uniqueResults) : uniqueResults[i].url = u
    ELSE 0

TotalFetchCalls ==
    Cardinality({u \in Urls : fetchCalls[u] > 0})

\* C13 - deep-research fetches page bodies only for the first fetchLimit
\* entries of the deduplicated list (3 / 5 / 8 by depth); an entry becomes a
\* source only if its extracted body is longer than 200 characters, a failed
\* fetch giving the empty string; so in every response sourcesAnalyzed <=
\* min(fetchLimit, sourcesFound) and sourcesFound <= 5 / 10 / 20.
C13_FetchLimit ==
    entry = "deep-research" =>
      LET limit == CASE input.depth = "quick" -> 3
                     [] input.depth = "thorough" -> 5
                     [] input.depth = "exhaustive" -> 8
          cap   == CASE input.depth = "quick" -> 5
                     [] input.depth = "thorough" -> 10
                     [] input.depth = "exhaustive" -> 20
      IN  /\ \A u \in Urls :
                fetchCalls[u] > 0 => PlaceOf(u) \in 1..limit
          /\ \A i \in 1..Len(sourceContents) :
                /\ fetchCalls[sourceContents[i].url] > 0
                /\ PageTextLen[sourceContents[i].url] > 200
                /\ sourceContents[i].contentLen > 200
                /\ sourceContents[i].title
                     = uniqueResults[PlaceOf(sourceContents[i].url)].title
          /\ Len(sourceContents) <= TotalFetchCalls
          /\ pc \in {"synth", "hung_ai", "done"} =>
                TotalFetchCalls = Min(limit, Len(uniqueResults))
          /\ pc = "done" =>
                /\ output.methodology.sourcesFound = Len(output.sources)
                /\ output.methodology.sourcesFound <= cap
                /\ output.methodology.sourcesAnalyzed
                     <= Min(limit, output.methodology.sourcesFound)

\* more entries than the limit; a page of exactly 200 characters and a failed
\* fetch were discarded, a page of 201 characters was kept
C13_Witness ==
    /\ entry = "deep-research"
    /\ pc = "done"
    /\ input.depth = "quick"
    /\ output.methodology.sourcesFound = 5
    /\ TotalFetchCalls = 3
    /\ fetchCalls["b"] = 1
    /\ fetchCalls["c"] = 1
    /\ output.methodology.sourcesAnalyzed = 1
    /\ sourceContents[1].url = "a"

\* The candidate sentences of the text, in text order, and their scores.
Cands == extractSentences(input.text)

ScoreOf(i) ==
    scoreSentence(Cands[i].frag, i - 1, Len(Cands), input.keywords)

\* candidate j is considered before candidate i
Ahead(j, i) ==
    ScoreOf(j) > ScoreOf(i) \/ (ScoreOf(j) = ScoreOf(i) /\ j < i)

\* the candidates that are in the summary
Taken ==
    {i \in 1..Len(Cands) :
        \E k \in 1..Len(algoResult.summary.parts) :
            algoResult.summary.parts[k] = Cands[i].pos}

TakenAhead(i) == {j \in Taken : Ahead(j, i)}

\* C14 - summarizeText considers the candidates by descending score, equal
\* scores by ascending index; a candidate is accepted exactly when fewer than
\* 5 are accepted so far and currentLength + its length + 2 <= maxLength at
\* that moment; nothing accepted is given up again and nothing passed over is
\* taken up again.  The key points are the first three in that order.
C14_GreedyInOrder ==
    SumDone =>
      LET c      == Cands
          n      == Len(c)
          parts  == algoResult.summary.parts
          points == algoResult.keyPoints
          \* SubSeq(f, 1, n): the function f, as a sequence of n values
          score  == SubSeq([i \in 1..n |->
                        scoreSentence(c[i].frag, i - 1, n, input.keywords)],
                      1, n)
          \* the number of candidates considered before i
          rank   == SubSeq([i \in 1..n |->
                        Cardinality({j \in 1..n :
                            \/ score[j] > score[i]
                            \/ score[j] = score[i] /\ j < i})],
                      1, n)
          taken  == {i \in 1..n : \E k \in 1..Len(parts) : parts[k] = c[i].pos}
          \* the accepted candidates considered before i
          before == [i \in 1..n |-> {j \in taken : rank[j] < rank[i]}]
          \* currentLength at the moment i is considered
          spent  == [i \in 1..n |->
                        SumSeq([j \in 1..n |->
                                   IF j \in before[i]
                                   THEN c[j].frag.len + 2 ELSE 0])]
      IN  /\ \A i \in 1..n :
                i \in taken <=>
                  /\ Cardinality(before[i]) < 5
                  /\ spent[i] + c[i].frag.len + 2 <= input.maxLength
          /\ Len(parts) = Cardinality(taken)
          /\ Len(points) = Min(3, n)
          /\ \A k \in 1..Len(points) :
                \E i \in 1..n :
                  /\ points[k].pos = c[i].pos
                  /\ rank[i] = k - 1

\* the budget is under-filled where another choice would fill it: a passed
\* over candidate r would fit in the place of an accepted, shorter one; and of
\* two candidates with equal scores only the earlier one was accepted
C14_Witness ==
    /\ SumDone
    /\ \E r \in 1..Len(Cands) : \E a \in Taken :
         /\ r \notin Taken
         /\ Cardinality(TakenAhead(r)) < 5
         /\ Ahead(a, r)
         /\ Cands[r].frag.len > Cands[a].frag.len
         /\ SpentBudget - Cands[a].frag.len + Cands[r].frag.len
              <= input.maxLength
    /\ \E i \in Taken : \E j \in 1..Len(Cands) :
         /\ j \notin Taken
         /\ i < j
         /\ ScoreOf(i) = ScoreOf(j)
         /\ Cands[i].frag = Cands[j].frag

\* braces opened and not yet closed within text[i..j]
OpenIn(text, i, j) ==
    Cardinality({k \in i..j : text[k] = "{"})
      - Cardinality({k \in i..j : text[k] = "}"})

\* text[i..j] is a balanced {...} span: it opens at i and closes, for the
\* first time, at j
BalancedAt(text, i, j) ==
    /\ text[i] = "{"
    /\ OpenIn(text, i, j) = 0
    /\ \A k \in i..(j - 1) : OpenIn(text, i, k) > 0

\* the first balanced {...} span of the text; <<>> when there is none
FirstBalancedSpan(text) ==
    LET starts == {i \in 1..Len(text) :
                     \E j \in (i + 1)..Len(text) : BalancedAt(text, i, j)}
    IN  IF starts = {} THEN <<>>
        ELSE LET i == CHOOSE k \in starts : \A l \in starts : k <= l
                 j == CHOOSE k \in (i + 1)..Len(text) : BalancedAt(text, i, k)
             IN  SubSeq(text, i, j)

\* C15 - on a successful completion call deep-research extracts the first
\* balanced {...} span of the response text and decodes that span: the
\* synthesis is the object that span holds; when the response has no such
\* span or the span does not decode, the outcome is the fallback (success:
\* true, the "AI synthesis unavailable" marker and the raw source list),
\* never an error.
C15_FirstBalancedSpan ==
    (entry = "deep-research" /\ pc = "done" /\ aiReply.kind = "ok") =>
      LET span == FirstBalancedSpan(aiReply.text)
      IN  /\ output.success = TRUE
          /\ IF span # <<>> /\ JsonValid(span)
             THEN /\ output.synthesis.ok
                  /\ output.synthesis.json = span
             ELSE /\ ~output.synthesis.ok
                  /\ output.synthesis.error = "AI synthesis unavailable"
                  /\ output.synthesis.rawSources = RawSourcesOf(sourceContents)

\* The completion call returned text whose decoded object has a summary of
\* more than 50 characters ("S"; the last "summary" member is the one kept).
LongAiSummary ==
    /\ aiReply.kind = "ok"
    /\ parsed.ok
    /\ LET js == parsed.json
           ss == {i \in 1..Len(js) : js[i] \in {"S", "s"}}
       IN  /\ ss # {}
           /\ \E i \in ss : js[i] = "S" /\ \A l \in ss : l <= i

\* C16 - in every success response of the AI-augmented summarize handler,
\* aiPowered is true exactly when the completion call returned a decodable
\* object whose summary is longer than 50 characters; summary and keyPoints
\* are then both the AI's, otherwise both the extractive summarizer's; and
\* summaryLength is the length of the returned summary.
C16_AiPoweredIff ==
    (entry = "summarize" /\ pc = "done" /\ output.success) =>
      /\ output.aiPowered <=> LongAiSummary
      /\ output.aiPowered =>
            /\ output.summary.from = "ai"
            /\ output.keyPoints.from = "ai"
            /\ output.summary.len > 50
      /\ ~output.aiPowered =>
            /\ output.summary.from = "algo"
            /\ output.keyPoints.from = "algo"
            /\ algoResult = summarizeText(content, input.maxLength,
                                          input.keywords)
            /\ output.summary.parts = algoResult.summary.parts
            /\ output.summary.len = algoResult.summary.len
            /\ output.keyPoints.points = algoResult.keyPoints
      /\ output.summaryLength = output.summary.len

\* an AI summary of 51 characters was returned in place of an extractive
\* summary of another length
C16_Witness ==
    /\ entry = "summarize"
    /\ pc = "done"
    /\ output.success
    /\ output.aiPowered
    /\ output.summaryLength = 51
    /\ algoResult.summary.len > 51
    /\ algoResult.keyPoints # <<>>

=============================================================================
